---- MODULE Spec2Model ----
(***************************************************************************)
(* Greedy binary expansion of a rational x: model of                       *)
(* Greedy_Binary_Expansions_Algorithm.py.                                  *)
(*                                                                         *)
(* A Fraction is a pair <<numerator, denominator>> kept in lowest terms    *)
(* with a positive denominator, as fractions.Fraction keeps it.            *)
(* Two entry points are modelled: the program main() (caller = "main"),    *)
(* fed with raw argument strings, and a direct call of the library         *)
(* functions binary_exponents / partial_binary_sum / exps_to_bitstring     *)
(* (caller = "direct") on an arbitrary Fraction x and integer n.           *)
(***************************************************************************)
EXTENDS Integers, Sequences, FiniteSets, TLC

\* ---------------------------------------------------------------- bounds
MaxN == 3
MaxDen == 8

\* ------------------------------------------------- exact rational numbers
Abs(a) == IF a < 0 THEN -a ELSE a

RECURSIVE GCD(_, _)
GCD(a, b) == IF b = 0 THEN a ELSE GCD(b, a % b)

\* Fraction(num, den) for den # 0: lowest terms, positive denominator
Norm(num, den) ==
    LET g == GCD(Abs(num), Abs(den))
        s == IF den < 0 THEN -1 ELSE 1
    IN  <<(s * num) \div g, (s * den) \div g>>

FInt(k) == <<k, 1>>

FAdd(a, b) ==
    LET g == GCD(a[2], b[2])
    IN  Norm(a[1] * (b[2] \div g) + b[1] * (a[2] \div g), a[2] * (b[2] \div g))

FSub(a, b) == FAdd(a, <<-b[1], b[2]>>)

FMul(a, b) ==
    LET g1 == GCD(Abs(a[1]), b[2])
        g2 == GCD(Abs(b[1]), a[2])
    IN  Norm((a[1] \div g1) * (b[1] \div g2), (a[2] \div g2) * (b[2] \div g1))

\* 1 / a for a # 0
FInv(a) == Norm(a[2], a[1])

FLt(a, b) ==
    LET g == GCD(a[2], b[2])
    IN  a[1] * (b[2] \div g) < b[1] * (a[2] \div g)

FLe(a, b) == a = b \/ FLt(a, b)

FZero == FInt(0)
FOne == FInt(1)

InUnit(x) == FLt(FZero, x) /\ FLt(x, FOne)

RECURSIVE Pow2(_)
Pow2(k) == IF k <= 0 THEN 1 ELSE 2 * Pow2(k - 1)

\* int.bit_length(): bits of the magnitude, 0 for 0
RECURSIVE BitLength(_)
BitLength(v) == IF Abs(v) = 0 THEN 0 ELSE 1 + BitLength(Abs(v) \div 2)

RECURSIVE SumSeq(_)
SumSeq(s) == IF s = <<>> THEN 0 ELSE s[1] + SumSeq(Tail(s))

\* ------------------------------------------------------------- raw inputs
\* The argument / input strings.  A raw x is the text "num/den" (kind
\* "frac"), a math expression whose eval() is the float val (kind "expr"),
\* or text that neither Fraction() nor eval() accepts (kind "junk").
\* A raw n is an optional minus sign followed by decimal digits.
RawFracs ==
    [kind : {"frac"}, num : (0 - 1) .. (2 * MaxDen), den : 0 .. MaxDen]

RawExprs ==
    [kind : {"expr"}, num : {0, 5, 3}, den : {8, 2}]

RawJunk == [kind |-> "junk", num |-> 0, den |-> 0]

RawXs == RawFracs \cup RawExprs \cup {RawJunk}

RawNs ==
    [neg : BOOLEAN, digits : {<<>>} \cup {<<d>> : d \in 0 .. MaxN}]

\* the Fractions handed to a direct call of binary_exponents
DirectXs ==
    {Norm(a, b) : a \in (0 - MaxDen) .. (2 * MaxDen), b \in 1 .. MaxDen}

DirectNs == (0 - 1) .. MaxN

\* -------------------------------------------------------------- messages
NoExc == "none"
ErrParse == "could not parse x"
ErrRange == "x must lie strictly between 0 and 1 after fractional part"
ErrZeroDiv == "ZeroDivisionError"
ErrIntLiteral == "invalid literal for int()"
ErrNotInt == "n must be an integer"
ErrNTooSmall == "n must be at least 1"
ErrShift == "negative shift count"

\* ------------------------------------------------------------ parse_x
\* value of x after "x = Fraction(raw_x)" or the eval fallback; the junk
\* and zero-denominator cases raise before x is bound
ParsedFraction(raw) == Norm(raw.num, raw.den)

\* "if x >= 1: x -= x.numerator // x.denominator"
FractionalPart(x) ==
    IF FLe(FOne, x) THEN FSub(x, FInt(x[1] \div x[2])) ELSE x

ParseX(raw) ==
    IF raw.kind = "junk"
    THEN [exc |-> ErrParse, val |-> FZero]
    ELSE IF raw.den = 0
    THEN [exc |-> ErrZeroDiv, val |-> FZero]
    ELSE LET x1 == FractionalPart(ParsedFraction(raw))
         IN  IF InUnit(x1)
             THEN [exc |-> NoExc, val |-> x1]
             ELSE [exc |-> ErrRange, val |-> FZero]

\* int(raw_n)
RECURSIVE DigitsValue(_)
DigitsValue(ds) ==
    IF ds = <<>> THEN 0
    ELSE 10 * DigitsValue(SubSeq(ds, 1, Len(ds) - 1)) + ds[Len(ds)]

ParseInt(raw) ==
    IF raw.digits = <<>>
    THEN [exc |-> ErrIntLiteral, val |-> 0]
    ELSE [exc |-> NoExc,
          val |-> IF raw.neg THEN 0 - DigitsValue(raw.digits)
                  ELSE DigitsValue(raw.digits)]

\* ------------------------------------------------------ binary_exponents
\* variant: the check of n lets 0 through
NTooSmallOffByOne(n0) == n0 < 0

\* "if n < 1: raise ValueError"
NTooSmall(n0) == n0 < 1

\* variant: the loop runs once more than range(n)
RangeHasNextInclusive(i0, n0) == i0 <= n0

\* "for _ in range(n)": another iteration is due after i0 iterations
RangeHasNext(i0, n0) == i0 < n0

Shl(a, k) == a * Pow2(k)

Candidate(p0, q0) == BitLength(p0) - BitLength(q0)

\* variant: the bit-length difference taken as the floor, uncorrected
FloorLog2NoCompare(p0, q0) == Candidate(p0, q0)

FloorLog2(p0, q0) ==
    LET c == Candidate(p0, q0)
    IN  IF p0 < Shl(q0, c) THEN c - 1 ELSE c

\* variant: the floor returned where the ceiling is due
CeilLog2AlwaysFloor(p0, q0) == FloorLog2(p0, q0)

\* variant: one added to the floor even when inv is a power of two
CeilLog2AlwaysUp(p0, q0) == FloorLog2(p0, q0) + 1

CeilLog2(p0, q0) ==
    LET f == FloorLog2(p0, q0)
    IN  IF p0 = Shl(q0, f) THEN f ELSE f + 1

\* a shift by a negative count raises ValueError("negative shift count")
ShiftRaises(p0, q0) == Candidate(p0, q0) < 0 \/ FloorLog2(p0, q0) < 0

\* variant: "rem * (1 << m - 1)", the subtraction bound into the shift
NextRemPrecedence(r, m0) == FMul(r, FInt(Shl(1, m0 - 1)))

\* "rem = rem * (1 << m) - 1"
NextRem(r, m0) == FSub(FMul(r, FInt(Shl(1, m0))), FOne)

\* the whole loop as a function: the exponents, or the exception raised
RECURSIVE ExpandFrom(_, _)
ExpandFrom(r, k) ==
    IF k <= 0 \/ r = FZero
    THEN [exc |-> NoExc, exps |-> <<>>]
    ELSE LET inv == FInv(r)
         IN  IF ShiftRaises(inv[1], inv[2])
             THEN [exc |-> ErrShift, exps |-> <<>>]
             ELSE LET m0 == CeilLog2(inv[1], inv[2])
                      rest == ExpandFrom(NextRem(r, m0), k - 1)
                  IN  [exc |-> rest.exc,
                       exps |-> IF rest.exc = NoExc
                                THEN <<m0>> \o rest.exps ELSE <<>>]

BinaryExponents(x0, n0) ==
    IF NTooSmall(n0)
    THEN [exc |-> ErrNTooSmall, exps |-> <<>>]
    ELSE ExpandFrom(x0, n0)

\* ---------------------------------------------------- partial_binary_sum
\* variant: each term 2^-m_k, the exponents not accumulated
RECURSIVE PartialSumNoCum(_, _, _)
PartialSumNoCum(es, total, cum) ==
    IF es = <<>> THEN total
    ELSE PartialSumNoCum(Tail(es), FAdd(total, Norm(1, Shl(1, es[1]))), cum)

RECURSIVE PartialSumFrom(_, _, _)
PartialSumFrom(es, total, cum) ==
    IF es = <<>> THEN total
    ELSE PartialSumFrom(Tail(es),
                        FAdd(total, Norm(1, Shl(1, cum + es[1]))),
                        cum + es[1])

\* variant: the running exponent total started at 1
PartialBinarySumFromOne(es) == PartialSumFrom(es, FZero, 1)

PartialBinarySum(es) == PartialSumFrom(es, FZero, 0)

\* ----------------------------------------------------- exps_to_bitstring
\* '0' * k is the empty string for k <= 0
Zeros(k) == [j \in 1 .. k |-> 0]

RECURSIVE ExpsToBitstring(_)
ExpsToBitstring(es) ==
    IF es = <<>> THEN <<>>
    ELSE (<<1>> \o Zeros(es[1] - 1)) \o ExpsToBitstring(Tail(es))

\* ------------------------------------------------------------------ state
VARIABLES
    caller,       \* "main": the program; "direct": a call of the functions
    interactive,  \* main only: len(sys.argv) # 3, inputs are prompted for
    raw_x, raw_n, \* main only: the two input strings
    pc,           \* position in the program
    x, n,         \* arguments of binary_exponents
    i,            \* loop iterations of binary_exponents entered so far
    rem, exps,    \* locals of binary_exponents
    p, q, candidate, floor_log2, m,  \* locals of the last loop iteration
    exc,          \* message of the exception raised, NoExc if none
    approx,       \* result of partial_binary_sum
    bitstr,       \* result of exps_to_bitstring
    stdout,       \* lines printed so far, by kind
    stderr,       \* lines written to standard error, by kind
    exitcode      \* process exit status, -1 while running

vars == <<caller, interactive, raw_x, raw_n, pc, x, n, i, rem, exps,
          p, q, candidate, floor_log2, m, exc, approx, bitstr,
          stdout, stderr, exitcode>>

locals == <<p, q, candidate, floor_log2, m>>
inputs == <<caller, interactive, raw_x, raw_n>>
outputs == <<stdout, stderr, exitcode>>

RawN0 == [neg |-> FALSE, digits |-> <<>>]

Init ==
    /\ \/ /\ caller = "main"
          /\ interactive \in BOOLEAN
          /\ raw_x \in RawXs
          /\ raw_n \in RawNs
          /\ pc = "main"
          /\ x = FZero
          /\ n = 0
       \/ /\ caller = "direct"
          /\ interactive = FALSE
          /\ raw_x = RawJunk
          /\ raw_n = RawN0
          /\ pc = "call"
          /\ x \in DirectXs
          /\ n \in DirectNs
    /\ i = 0
    /\ rem = FZero
    /\ exps = <<>>
    /\ p = 0 /\ q = 0 /\ candidate = 0 /\ floor_log2 = 0 /\ m = 0
    /\ exc = NoExc
    /\ approx = FZero
    /\ bitstr = <<>>
    /\ stdout = <<>>
    /\ stderr = <<>>
    /\ exitcode = 0 - 1

\* --------------------------------------------------------------- main
\* "except Exception as e: print("Error:", e); sys.exit(1)"
PrintErrorAndExit(before, msg) ==
    /\ stdout' = before \o <<"Error: " \o msg>>
    /\ exitcode' = 1
    /\ exc' = msg
    /\ pc' = "exit"
    /\ UNCHANGED <<x, n, stderr>>

\* main, len(sys.argv) == 3: parse_x(raw_x), int(raw_n) under one try
MainArgv ==
    /\ pc = "main"
    /\ ~interactive
    /\ LET px == ParseX(raw_x)
           pn == ParseInt(raw_n)
       IN  IF px.exc # NoExc THEN PrintErrorAndExit(stdout, px.exc)
           ELSE IF pn.exc # NoExc THEN PrintErrorAndExit(stdout, pn.exc)
           ELSE /\ x' = px.val
                /\ n' = pn.val
                /\ pc' = "call"
                /\ UNCHANGED <<exc, outputs>>
    /\ UNCHANGED <<inputs, i, rem, exps, locals, approx, bitstr>>

\* main, otherwise: prompt_inputs() prints its banner and the two prompts,
\* then parse_x(raw_x) and int(raw_n), whose ValueError it re-raises
MainPrompt ==
    /\ pc = "main"
    /\ interactive
    /\ LET px == ParseX(raw_x)
           pn == ParseInt(raw_n)
           shown == stdout \o <<"banner", "prompt x", "prompt n">>
       IN  IF px.exc # NoExc THEN PrintErrorAndExit(shown, px.exc)
           ELSE IF pn.exc # NoExc THEN PrintErrorAndExit(shown, ErrNotInt)
           ELSE /\ x' = px.val
                /\ n' = pn.val
                /\ pc' = "call"
                /\ stdout' = shown
                /\ UNCHANGED <<exc, stderr, exitcode>>
    /\ UNCHANGED <<inputs, i, rem, exps, locals, approx, bitstr>>

\* ------------------------------------------------------ binary_exponents
\* where control goes when binary_exponents returns
AfterReturn == IF caller = "main" THEN "note" ELSE "sum"

\* entry: the check of n, then "exps = []; rem = x"
BinaryExponentsEntry ==
    /\ pc = "call"
    /\ IF NTooSmall(n)
       THEN /\ exc' = ErrNTooSmall
            /\ pc' = "raised"
            /\ UNCHANGED <<rem, exps>>
       ELSE /\ exps' = <<>>
            /\ rem' = x
            /\ pc' = "loop"
            /\ UNCHANGED exc
    /\ UNCHANGED <<inputs, x, n, i, locals, approx, bitstr, outputs>>

\* an iteration that finds rem == 0 and breaks; the function returns
LoopBreak ==
    /\ pc = "loop"
    /\ RangeHasNext(i, n)
    /\ rem = FZero
    /\ i' = i + 1
    /\ pc' = AfterReturn
    /\ UNCHANGED <<inputs, x, n, rem, exps, locals, exc, approx, bitstr,
                   outputs>>

\* an iteration that emits one exponent
LoopStep ==
    /\ pc = "loop"
    /\ RangeHasNext(i, n)
    /\ rem # FZero
    /\ LET inv == FInv(rem)
       IN  /\ ~ShiftRaises(inv[1], inv[2])
           /\ p' = inv[1]
           /\ q' = inv[2]
           /\ candidate' = Candidate(inv[1], inv[2])
           /\ floor_log2' = FloorLog2(inv[1], inv[2])
           /\ m' = CeilLog2(inv[1], inv[2])
           /\ rem' = NextRem(rem, CeilLog2(inv[1], inv[2]))
           /\ exps' = Append(exps, CeilLog2(inv[1], inv[2]))
    /\ i' = i + 1
    /\ UNCHANGED <<inputs, pc, x, n, exc, approx, bitstr, outputs>>

\* an iteration in which a shift count is negative: ValueError
LoopRaise ==
    /\ pc = "loop"
    /\ RangeHasNext(i, n)
    /\ rem # FZero
    /\ LET inv == FInv(rem)
       IN  /\ ShiftRaises(inv[1], inv[2])
           /\ p' = inv[1]
           /\ q' = inv[2]
           /\ candidate' = Candidate(inv[1], inv[2])
           /\ floor_log2' = IF Candidate(inv[1], inv[2]) < 0 THEN floor_log2
                            ELSE FloorLog2(inv[1], inv[2])
    /\ i' = i + 1
    /\ exc' = ErrShift
    /\ pc' = "raised"
    /\ UNCHANGED <<inputs, x, n, rem, exps, m, approx, bitstr, outputs>>

\* range(n) is exhausted: "return exps"
LoopExhausted ==
    /\ pc = "loop"
    /\ ~RangeHasNext(i, n)
    /\ pc' = AfterReturn
    /\ UNCHANGED <<inputs, x, n, i, rem, exps, locals, exc, approx, bitstr,
                   outputs>>

\* ------------------------------------------------------- rest of main
\* "if len(exps) < n: print(note)"
MainNote ==
    /\ pc = "note"
    /\ stdout' = IF Len(exps) < n THEN Append(stdout, "note") ELSE stdout
    /\ pc' = "sum"
    /\ UNCHANGED <<inputs, x, n, i, rem, exps, locals, exc, approx, bitstr,
                   stderr, exitcode>>

CallPartialBinarySum ==
    /\ pc = "sum"
    /\ approx' = PartialBinarySum(exps)
    /\ pc' = "bits"
    /\ UNCHANGED <<inputs, x, n, i, rem, exps, locals, exc, bitstr, outputs>>

CallExpsToBitstring ==
    /\ pc = "bits"
    /\ bitstr' = ExpsToBitstring(exps)
    /\ pc' = IF caller = "main" THEN "print" ELSE "done"
    /\ UNCHANGED <<inputs, x, n, i, rem, exps, locals, exc, approx, outputs>>

\* the five result lines; main returns and the process exits with 0
MainPrint ==
    /\ pc = "print"
    /\ stdout' = stdout \o <<"", "Input x", "exponents", "approximation",
                             "bits">>
    /\ exitcode' = 0
    /\ pc' = "exit"
    /\ UNCHANGED <<inputs, x, n, i, rem, exps, locals, exc, approx, bitstr,
                   stderr>>

\* an exception leaves binary_exponents while main has no handler around the
\* call: the interpreter writes the traceback to stderr and exits with 1
MainUncaught ==
    /\ pc = "raised"
    /\ caller = "main"
    /\ stderr' = Append(stderr, "Traceback: " \o exc)
    /\ exitcode' = 1
    /\ pc' = "exit"
    /\ UNCHANGED <<inputs, x, n, i, rem, exps, locals, exc, approx, bitstr,
                   stdout>>

Next ==
    \/ MainArgv
    \/ MainPrompt
    \/ BinaryExponentsEntry
    \/ LoopBreak
    \/ LoopStep
    \/ LoopRaise
    \/ LoopExhausted
    \/ MainNote
    \/ CallPartialBinarySum
    \/ CallExpsToBitstring
    \/ MainPrint
    \/ MainUncaught

Spec == Init /\ [][Next]_vars

\* ------------------------------------------------------------ properties
\* binary_exponents has been entered and has passed its check of n
InLoopOrAfter ==
    \/ pc \in {"loop", "note", "sum", "bits", "print", "done"}
    \/ pc = "raised" /\ exc = ErrShift
    \/ pc = "exit" /\ caller = "main" /\ (exitcode = 0 \/ exc = ErrShift)

\* binary_exponents has returned its list
Returned ==
    \/ pc \in {"note", "sum", "bits", "print", "done"}
    \/ pc = "exit" /\ exitcode = 0

\* partial_binary_sum / exps_to_bitstring have been applied to the list
SumDone == pc \in {"bits", "print", "done"} \/ (pc = "exit" /\ exitcode = 0)
BitsDone == pc \in {"print", "done"} \/ (pc = "exit" /\ exitcode = 0)

\* the documented domain of binary_exponents
ValidArgs == InUnit(x) /\ n >= 1

\* the run is over
Terminated ==
    \/ pc = "exit"
    \/ caller = "direct" /\ pc \in {"done", "raised"}

\* value of 0.<bits> read in base 2
RECURSIVE BitsInt(_)
BitsInt(bits) ==
    IF bits = <<>> THEN 0
    ELSE 2 * BitsInt(SubSeq(bits, 1, Len(bits) - 1)) + bits[Len(bits)]

BitsValue(bits) == Norm(BitsInt(bits), Pow2(Len(bits)))

\* 2^-k as a Fraction, k >= 0
TwoToMinus(k) == Norm(1, Pow2(k))

\* m_1 + ... + m_k
CumSum(es, k) == SumSeq(SubSeq(es, 1, k))

\* C1: round trip.  When binary_exponents(x, n), 0 < x < 1, n >= 1, has
\* returned with the remainder at 0 (in particular whenever it returned fewer
\* than n exponents), partial_binary_sum of the result is exactly x.
C1_RoundTrip ==
    (Returned /\ ValidArgs /\ rem = FZero) =>
        /\ PartialBinarySum(exps) = x
        /\ SumDone => approx = x

C1_Witness ==
    /\ pc = "done" /\ x = <<5, 8>> /\ n = 3
    /\ rem = FZero /\ Len(exps) < n /\ approx = x

\* C2: bit alignment.  The string built by exps_to_bitstring, read as the
\* binary digits after the point, is the rational partial_binary_sum gives
\* for the same exponents; for x = 5/8, n = 3 it is "101".
C2_BitAlignment ==
    (BitsDone /\ ValidArgs) =>
        /\ BitsValue(bitstr) = approx
        /\ (x = <<5, 8>> /\ n = 3) => bitstr = <<1, 0, 1>>

\* C3, as claimed: the returned exponents are strictly increasing, and
\* x = 5/8, n = 3 yields [1, 3].
C3_StrictlyIncreasing ==
    (Returned /\ ValidArgs) =>
        /\ \A j \in 1 .. (Len(exps) - 1) : exps[j] < exps[j + 1]
        /\ (x = <<5, 8>> /\ n = 3) => exps = <<1, 3>>

\* C3, amended: every exponent emitted is an integer >= 1, so the cumulative
\* sums m_1 + ... + m_k (the bit positions) are strictly increasing; the
\* exponents themselves are the gaps, and x = 5/8, n = 3 yields [1, 2].
C3_PositiveGaps ==
    (InLoopOrAfter /\ ValidArgs) =>
        /\ \A j \in 1 .. Len(exps) : exps[j] >= 1
        /\ \A j \in 1 .. (Len(exps) - 1) : CumSum(exps, j) < CumSum(exps, j + 1)
        /\ (Returned /\ x = <<5, 8>> /\ n = 3) => exps = <<1, 2>>

C3_Witness ==
    /\ Returned /\ x = <<3, 4>> /\ n = 3 /\ exps = <<1, 1>>

\* C4, as claimed: whenever n < 1 or x is not strictly between 0 and 1,
\* binary_exponents raises before any loop iteration and returns nothing.
C4_RejectsInvalidArgs ==
    (caller = "direct" /\ pc # "call" /\ ~ValidArgs) =>
        /\ i = 0
        /\ ~Returned
        /\ pc = "raised"

\* C4, amended: binary_exponents raises ValueError("n must be at least 1"),
\* before any loop iteration and without returning a list, exactly when
\* n < 1; it makes no check of x, and with n >= 1 it enters the loop whatever
\* x is.
C4_RejectsSmallN ==
    (caller = "direct" /\ pc # "call") =>
        /\ n < 1 =>
              /\ pc = "raised" /\ exc = ErrNTooSmall
              /\ i = 0 /\ exps = <<>> /\ ~Returned
        /\ n >= 1 =>
              /\ exc # ErrNTooSmall
              /\ Terminated => i >= 1

C4_Witness ==
    /\ caller = "direct" /\ pc = "raised" /\ n = 0 /\ InUnit(x)
    /\ exc = ErrNTooSmall

\* C5: on every input-validation failure (x does not parse, its fractional
\* part is outside (0,1), n is not a positive integer) main itself prints the
\* message to standard output, exits with 1 and prints no results; it exits
\* with 0 only on success.
InputInvalid ==
    \/ ParseX(raw_x).exc # NoExc
    \/ ParseInt(raw_n).exc # NoExc
    \/ ParseInt(raw_n).val < 1

C5_MainReportsInvalidInput ==
    (caller = "main" /\ pc = "exit") =>
        /\ InputInvalid =>
              /\ exitcode = 1
              /\ stdout # <<>> /\ stdout[Len(stdout)] = "Error: " \o exc
              /\ stderr = <<>>
              /\ \A k \in 1 .. Len(stdout) : stdout[k] # "exponents"
        /\ exitcode = 0 => ~InputInvalid

\* C6: with 0 < x < 1 the remainder stays in [0, 1) after every loop step,
\* and once it is 0 no further exponent is emitted.
C6_RemInRange ==
    (InLoopOrAfter /\ ValidArgs) => (FLe(FZero, rem) /\ FLt(rem, FOne))

C6_RemainderInvariant ==
    /\ []C6_RemInRange
    /\ [][(InLoopOrAfter /\ ValidArgs /\ rem = FZero) => exps' = exps]_vars

C6_Witness ==
    /\ pc = "loop" /\ ValidArgs /\ rem = FZero /\ Len(exps) = 2 /\ i < n

\* C7: with 0 < x < 1 and n >= 1 binary_exponents ends, after at most n loop
\* iterations, with at most n exponents; fewer than n only if the remainder
\* is exactly 0, otherwise exactly n.  Termination: the loop is never stuck
\* and never raises, and each of its steps either returns or uses up one of
\* the n iterations.
C7_LengthBound ==
    (InLoopOrAfter /\ ValidArgs) =>
        /\ i <= n
        /\ Len(exps) <= n
        /\ pc # "raised" /\ exc = NoExc
        /\ (pc = "loop" /\ rem # FZero) =>
              ~ShiftRaises(FInv(rem)[1], FInv(rem)[2])
        /\ Returned =>
              /\ Len(exps) < n => rem = FZero
              /\ rem # FZero => Len(exps) = n

C7_Termination ==
    /\ []C7_LengthBound
    /\ [][(pc = "loop" /\ ValidArgs) =>
            (Returned' \/ (pc' = "loop" /\ i' = i + 1 /\ i' <= n))]_vars

C7_Witness ==
    /\ Returned /\ ValidArgs /\ Len(exps) = n /\ rem # FZero /\ n = MaxN

\* C8: re-expansion.  With e = binary_exponents(x, n), 0 < x < 1, n >= 1,
\* binary_exponents(partial_binary_sum(e), n) is e again, both when the
\* expansion reached remainder 0 and when it was cut off at n terms.
C8_ReExpansion ==
    (Returned /\ ValidArgs) =>
        BinaryExponents(PartialBinarySum(exps), n) =
            [exc |-> NoExc, exps |-> exps]

C8_Witness ==
    /\ pc = "done" /\ x = <<1, 3>> /\ n = 2 /\ rem # FZero
    /\ approx = <<5, 16>> /\ exps = <<2, 2>>

\* C9: in every loop iteration with 0 < rem < 1, inv = 1/rem = p/q, the m
\* computed is the least integer with 2^m * rem >= 1; m >= 1, candidate and
\* floor_log2 are >= 0, floor_log2 is floor(log2(p/q)), and m = floor_log2
\* exactly when p/q is a power of two.
IsPowerOfTwoRatio(p0, q0) == \E k \in 0 .. BitLength(p0) : p0 = q0 * Pow2(k)

C9_CeilLog2 ==
    (InLoopOrAfter /\ ValidArgs /\ p # 0) =>
        /\ p > q /\ q > 0
        /\ q * Pow2(m) >= p
        /\ \A k \in 0 .. (m - 1) : q * Pow2(k) < p
        /\ m >= 1
        /\ candidate >= 0
        /\ floor_log2 >= 0
        /\ q * Pow2(floor_log2) <= p /\ p < q * Pow2(floor_log2 + 1)
        /\ (m = floor_log2) <=> IsPowerOfTwoRatio(p, q)
        /\ exps # <<>> /\ exps[Len(exps)] = m

C9_Witness ==
    /\ pc = "loop" /\ ValidArgs /\ p = 8 /\ q = 3 /\ candidate = 2
    /\ floor_log2 = 1 /\ m = 2

\* C10: loop invariant.  With 0 < x < 1, after every loop step
\* x = partial_binary_sum(exps) + rem * 2^-(sum of exps); so the partial sum
\* never exceeds x and 0 <= x - partial_binary_sum(exps) < 2^-(sum of exps).
C10_LoopInvariant ==
    (InLoopOrAfter /\ ValidArgs) =>
        LET s == PartialBinarySum(exps)
            w == TwoToMinus(SumSeq(exps))
        IN  /\ x = FAdd(s, FMul(rem, w))
            /\ FLe(s, x)
            /\ FLe(FZero, FSub(x, s))
            /\ FLt(FSub(x, s), w)

C10_Witness ==
    /\ Returned /\ x = <<1, 3>> /\ n = 3 /\ exps = <<2, 2, 2>>
    /\ rem = <<1, 3>>

====
